---------------------------- MODULE Spec2Model ----------------------------
(***************************************************************************)
(* A model of tests/comprehensive_validation.py: SQLValidator and main.    *)
(*                                                                         *)
(* A file's text is a sequence of tokens.  A token is one whitespace       *)
(* character (" " or "\n"), one punctuation character, or one maximal run  *)
(* of word characters (\w+), so that the regular expressions and the       *)
(* character loops of the source are computed token by token.  A path is   *)
(* the sequence of its parts below demo_root.                              *)
(***************************************************************************)
EXTENDS Integers, Sequences, FiniteSets, TLC

(***************************************************************************)
(* Bounds of the model.                                                    *)
(***************************************************************************)
MaxStmts == 3      \* statements in the whole corpus
MaxArgs == 3       \* arguments of one generated call
MaxRepeat == 51    \* repetitions of the five-call line in the large corpus

(***************************************************************************)
(* Text.                                                                   *)
(***************************************************************************)
Whitespace == {" ", "\n"}

\* One character outside ASCII that is no word character: U+1F50D, whose
\* UTF-8 bytes are F0 9F 94 8D.
Magnifier == "U+1F50D"

Punctuation == {"(", ")", ",", "'", "\"", ";", "=", "-", "$", Magnifier}

IsSpace(t) == t \in Whitespace
IsWord(t) == t \notin Whitespace \cup Punctuation

\* str.upper() and re.IGNORECASE, on the tokens the corpora use.
Upper(t) ==
    CASE t = "use" -> "USE"
      [] t = "warehouse" -> "WAREHOUSE"
      [] t = "create" -> "CREATE"
      [] t = "function" -> "FUNCTION"
      [] t = "generate_id" -> "GENERATE_ID"
      [] OTHER -> t

Min(S) == CHOOSE x \in S : \A y \in S : x <= y
Last(s) == s[Len(s)]

RECURSIVE Concat(_)
Concat(ss) == IF ss = <<>> THEN <<>> ELSE Head(ss) \o Concat(Tail(ss))

\* s.strip(): without its leading and trailing whitespace.
Strip(s) ==
    LET solid == {i \in 1..Len(s) : ~IsSpace(s[i])}
    IN  IF solid = {} THEN <<>>
        ELSE SubSeq(s, Min(solid), CHOOSE i \in solid : \A j \in solid : j <= i)

\* s.split()[0] of a text that is not all whitespace.
FirstWord(s) ==
    LET t == Strip(s)
        gaps == {i \in 1..Len(t) : IsSpace(t[i])}
    IN  IF gaps = {} THEN t ELSE SubSeq(t, 1, Min(gaps) - 1)

\* content[:pos].count('\n') + 1
LineOf(content, pos) ==
    Cardinality({i \in 1..(pos - 1) : content[i] = "\n"}) + 1

(***************************************************************************)
(* Regular expressions.  A matcher takes a text and a start position and   *)
(* gives the match found there: end = 0 when there is none.  In the steps  *)
(* of a pattern a position is the next token to read, 0 after a failure.   *)
(***************************************************************************)
NoMatch == [start |-> 0, end |-> 0, name |-> "", group |-> <<>>]

\* A literal word of the pattern, under re.IGNORECASE.
Lit(c, p, w) == IF p >= 1 /\ p <= Len(c) /\ Upper(c[p]) = w THEN p + 1 ELSE 0

\* A literal character of the pattern.
Chr(c, p, ch) == IF p >= 1 /\ p <= Len(c) /\ c[p] = ch THEN p + 1 ELSE 0

\* \s*
RECURSIVE Spaces0(_, _)
Spaces0(c, p) ==
    IF p = 0 THEN 0
    ELSE IF p <= Len(c) /\ IsSpace(c[p]) THEN Spaces0(c, p + 1)
    ELSE p

\* \s+
Spaces1(c, p) ==
    IF p >= 1 /\ p <= Len(c) /\ IsSpace(c[p]) THEN Spaces0(c, p) ELSE 0

\* (\w+)
Word(c, p) == IF p >= 1 /\ p <= Len(c) /\ IsWord(c[p]) THEN p + 1 ELSE 0

\* The first position from p on that holds ch, 0 when there is none.
FirstOf(c, p, ch) ==
    LET at == {q \in p..Len(c) : c[q] = ch}
    IN  IF p = 0 \/ at = {} THEN 0 ELSE Min(at)

\* re.finditer: the leftmost match from position i on, then on from its
\* end; found[j] is the match of the pattern at position j of the text, and
\* starts are the positions where there is one.
RECURSIVE FindFrom(_, _, _)
FindFrom(found, starts, i) ==
    LET ahead == {j \in starts : j >= i}
    IN  IF ahead = {} THEN <<>>
        ELSE LET m == found[Min(ahead)]
             IN  <<m>> \o FindFrom(found, starts, m.end + 1)

FindIter(found, i) ==
    FindFrom(found, {j \in i..Len(found) : found[j].end # 0}, i)

\* function_pattern: CREATE\s+(?:OR\s+REPLACE\s+)?FUNCTION\s+(\w+)\s*\((.*?)\)
MatchFunctionPattern(c, i) ==
    LET p1 == Spaces1(c, Lit(c, i, "CREATE"))
        p2 == Spaces1(c, Lit(c, Spaces1(c, Lit(c, p1, "OR")), "REPLACE"))
        p3 == Spaces1(c, Lit(c, IF p2 # 0 THEN p2 ELSE p1, "FUNCTION"))
        p4 == Chr(c, Spaces0(c, Word(c, p3)), "(")
        p5 == FirstOf(c, p4, ")")
    IN  IF Lit(c, i, "CREATE") = 0 \/ p5 = 0 THEN NoMatch
        ELSE [start |-> i, end |-> p5, name |-> c[p3],
              group |-> SubSeq(c, p4, p5 - 1)]

\* call_pattern: {func_name}\s*\((.*?)\)
MatchCallPattern(func_name, c, i) ==
    LET p1 == Chr(c, Spaces0(c, Lit(c, i, func_name)), "(")
        p2 == FirstOf(c, p1, ")")
    IN  IF Lit(c, i, func_name) = 0 \/ p2 = 0 THEN NoMatch
        ELSE [start |-> i, end |-> p2, name |-> func_name,
              group |-> SubSeq(c, p1, p2 - 1)]

\* use_patterns: USE\s+<context_type>\s+(\w+)
MatchUsePattern(context_type, c, i) ==
    LET p1 == Spaces1(c, Lit(c, Spaces1(c, Lit(c, i, "USE")), context_type))
        p2 == Word(c, p1)
    IN  IF Lit(c, i, "USE") = 0 \/ p2 = 0 THEN NoMatch
        ELSE [start |-> i, end |-> p2 - 1, name |-> c[p1], group |-> <<>>]

\* syntax_checks['COMMENT_SYNTAX']: (?:CREATE|ALTER).*COMMENT\s+["'][^=]
\* ('.' stops at a line break; '.*' is greedy, so the last COMMENT of the
\* line that can finish the pattern is the one taken).
MatchCommentSyntax(c, i) ==
    LET opens == i >= 1 /\ i <= Len(c) /\ Upper(c[i]) \in {"CREATE", "ALTER"}
        Quote(k) == Spaces1(c, Lit(c, k, "COMMENT"))
        ends == {k \in (i + 1)..Len(c) :
                    /\ \A j \in (i + 1)..(k - 1) : c[j] # "\n"
                    /\ Quote(k) # 0
                    /\ Quote(k) + 1 <= Len(c)
                    /\ c[Quote(k)] \in {"\"", "'"}
                    /\ c[Quote(k) + 1] # "="}
    IN  IF ~opens \/ ends = {} THEN NoMatch
        ELSE LET k == CHOOSE x \in ends : \A y \in ends : y <= x
             IN  [start |-> i, end |-> Quote(k) + 1, name |-> "COMMENT_SYNTAX",
                  group |-> <<>>]

\* syntax_checks['UUID_IN_VALUES']: VALUES\s*\([^)]*UUID_STRING\(\)
MatchUuidInValues(c, i) ==
    LET p1 == Chr(c, Spaces0(c, Lit(c, i, "VALUES")), "(")
        ends == {k \in p1..Len(c) :
                    /\ \A j \in p1..(k - 1) : c[j] # ")"
                    /\ Chr(c, Chr(c, Lit(c, k, "UUID_STRING"), "("), ")") # 0}
    IN  IF Lit(c, i, "VALUES") = 0 \/ p1 = 0 \/ ends = {} THEN NoMatch
        ELSE LET k == CHOOSE x \in ends : \A y \in ends : y <= x
             IN  [start |-> i, end |-> k + 2, name |-> "UUID_IN_VALUES",
                  group |-> <<>>]

\* 'CREATE WAREHOUSE' in content.upper(), 'USE WAREHOUSE' in content.upper()
ContainsPhrase(c, w1, w2) ==
    \E i \in 1..(Len(c) - 2) :
        Upper(c[i]) = w1 /\ c[i + 1] = " " /\ Upper(c[i + 2]) = w2

(***************************************************************************)
(* SQLValidator._parse_parameters and _parse_call_parameters.              *)
(***************************************************************************)
RECURSIVE ParametersLoop(_, _, _, _, _)
ParametersLoop(params_str, i, params, current_param, paren_depth) ==
    IF i > Len(params_str)
    THEN [params |-> params, current_param |-> current_param]
    ELSE LET char == params_str[i]
         IN  IF char = "("
             THEN ParametersLoop(params_str, i + 1, params,
                                 Append(current_param, char), paren_depth + 1)
             ELSE IF char = ")"
             THEN ParametersLoop(params_str, i + 1, params,
                                 Append(current_param, char), paren_depth - 1)
             ELSE IF char = "," /\ paren_depth = 0
             THEN ParametersLoop(params_str, i + 1,
                                 Append(params, Strip(current_param)), <<>>,
                                 paren_depth)
             ELSE ParametersLoop(params_str, i + 1, params,
                                 Append(current_param, char), paren_depth)

\* The list after the loop: the last piece is kept when it is not blank,
\* and blank pieces are dropped.
Pieces(r) ==
    LET params == IF Strip(r.current_param) # <<>>
                  THEN Append(r.params, Strip(r.current_param))
                  ELSE r.params
    IN  SelectSeq(params, LAMBDA p : Strip(p) # <<>>)

\* The parameter names of a definition: the first word of each piece.
ParseParameters(params_str) ==
    IF Strip(params_str) = <<>> THEN <<>>
    ELSE LET ps == Pieces(ParametersLoop(params_str, 1, <<>>, <<>>, 0))
         IN  [k \in 1..Len(ps) |-> FirstWord(ps[k])]

\* quote_char is "" for None.
RECURSIVE CallParametersLoop(_, _, _, _, _, _)
CallParametersLoop(params_str, i, params, current_param, paren_depth, quote_char) ==
    IF i > Len(params_str)
    THEN [params |-> params, current_param |-> current_param]
    ELSE LET char == params_str[i]
         IN  IF quote_char # ""
             THEN CallParametersLoop(params_str, i + 1, params,
                                     Append(current_param, char), paren_depth,
                                     IF char = quote_char THEN "" ELSE quote_char)
             ELSE IF char \in {"\"", "'"}
             THEN CallParametersLoop(params_str, i + 1, params,
                                     Append(current_param, char), paren_depth, char)
             ELSE IF char = "("
             THEN CallParametersLoop(params_str, i + 1, params,
                                     Append(current_param, char), paren_depth + 1,
                                     quote_char)
             ELSE IF char = ")"
             THEN CallParametersLoop(params_str, i + 1, params,
                                     Append(current_param, char), paren_depth - 1,
                                     quote_char)
             ELSE IF char = "," /\ paren_depth = 0
             THEN CallParametersLoop(params_str, i + 1,
                                     Append(params, Strip(current_param)), <<>>,
                                     paren_depth, quote_char)
             ELSE CallParametersLoop(params_str, i + 1, params,
                                     Append(current_param, char), paren_depth,
                                     quote_char)

\* A mutant of ParseCallParameters: the loop of _parse_parameters, which
\* knows no quotes.
CallParametersUnquoted(params_str) ==
    IF Strip(params_str) = <<>> THEN <<>>
    ELSE Pieces(ParametersLoop(params_str, 1, <<>>, <<>>, 0))

\* The arguments of a call, kept as written.
ParseCallParameters(params_str) ==
    IF Strip(params_str) = <<>> THEN <<>>
    ELSE Pieces(CallParametersLoop(params_str, 1, <<>>, <<>>, 0, ""))

(***************************************************************************)
(* Paths.  sorted() orders Path objects part by part.                      *)
(***************************************************************************)
\* The parts the corpora use, in ascending string order.
PartOrder ==
    <<"01_setup_environment.sql", "02_run_conversion_demo.sql",
      "03_create_semantic_views_demo.sql", "a.sql", "b.sql", "deploy_via_snowsight.sql",
      "python_udfs", "rdf_data_loader_udf.sql", "rdf_parser_udf.sql",
      "semantic_view_generator_udf.sql", "setup.sql", "sql", "udf.sql">>

PartRank(part) == CHOOSE k \in 1..Len(PartOrder) : PartOrder[k] = part

PathLess(p, q) ==
    \E k \in 1..Len(q) :
        /\ \A j \in 1..(k - 1) : j <= Len(p) /\ p[j] = q[j]
        /\ \/ k = Len(p) + 1
           \/ k <= Len(p) /\ PartRank(p[k]) < PartRank(q[k])

\* marker in file_path
PathContains(file_path, marker) == \E k \in 1..Len(file_path) : file_path[k] = marker

RECURSIVE Orders(_)
Orders(S) ==
    IF S = {} THEN {<<>>}
    ELSE UNION {{<<x>> \o g : g \in Orders(S \ {x})} : x \in S}

Range(s) == {s[k] : k \in DOMAIN s}

\* A mutant of Sorted: the list as globbed.
Unsorted(paths) == paths

\* sorted(sql_files): each path at the place of its rank.
Sorted(paths) ==
    LET S == Range(paths)
    IN  [k \in 1..Cardinality(S) |->
            CHOOSE p \in S : Cardinality({q \in S : PathLess(q, p)}) = k - 1]

(***************************************************************************)
(* The tables and the issues.                                              *)
(***************************************************************************)
udf_functions ==
    <<"PARSE_RDF_SCHEMA", "GENERATE_SEMANTIC_VIEW_DDL", "LOAD_RDF_DATA",
      "GENERATE_SNOWFLAKE_SEMANTIC_VIEW", "GENERATE_ID">>

context_types == <<"ROLE", "WAREHOUSE", "DATABASE", "SCHEMA">>

expected_context ==
    [context_type \in Range(context_types) |->
        CASE context_type = "ROLE" -> "SYSADMIN"
          [] context_type = "WAREHOUSE" -> "RDF_DEMO_WH"
          [] context_type = "DATABASE" -> "RDF_SEMANTIC_DB"
          [] context_type = "SCHEMA" -> "SEMANTIC_VIEWS"]

ValidationIssue(severity, category, file_path, line_number, description, suggestion) ==
    [severity |-> severity, category |-> category, file_path |-> file_path,
     line_number |-> line_number, description |-> description,
     suggestion |-> suggestion]

\* str(n), digit by digit.
RECURSIVE Str(_)
Str(n) ==
    LET digit == <<"0", "1", "2", "3", "4", "5", "6", "7", "8", "9">>[(n % 10) + 1]
    IN  IF n < 10 THEN <<digit>> ELSE Append(Str(n \div 10), digit)

\* ', '.join(parts)
RECURSIVE Join(_)
Join(parts) ==
    IF parts = <<>> THEN <<>>
    ELSE IF Len(parts) = 1 THEN parts[1]
    ELSE parts[1] \o <<",", " ">> \o Join(Tail(parts))

(***************************************************************************)
(* The extractors of _parse_sql_file.                                      *)
(***************************************************************************)
\* _extract_function_definitions: every match overwrites the entry of its
\* upper-cased name.
RECURSIVE StoreDefinitions(_, _, _, _)
StoreDefinitions(definitions, matches, sql_file, content) ==
    IF matches = <<>> THEN definitions
    ELSE LET match == Head(matches)
             func_name == Upper(match.name)
             func_def == [name |-> func_name,
                          parameters |-> ParseParameters(match.group),
                          file_path |-> sql_file,
                          line_number |-> LineOf(content, match.start),
                          full_signature |-> SubSeq(content, match.start, match.end)]
         IN  StoreDefinitions((func_name :> func_def) @@ definitions,
                              Tail(matches), sql_file, content)

ExtractFunctionDefinitions(definitions, sql_file, content) ==
    StoreDefinitions(definitions,
                     FindIter([j \in DOMAIN content |-> MatchFunctionPattern(content, j)], 1),
                     sql_file, content)

\* _extract_function_calls: name by name of the allowlist, match by match.
CallsOf(func_name, sql_file, content) ==
    LET matches == FindIter([j \in DOMAIN content |-> MatchCallPattern(func_name, content, j)], 1)
    IN  [k \in 1..Len(matches) |->
            [name |-> func_name,
             parameters |-> ParseCallParameters(matches[k].group),
             file_path |-> sql_file,
             line_number |-> LineOf(content, matches[k].start),
             full_call |-> SubSeq(content, matches[k].start, matches[k].end)]]

ExtractFunctionCalls(sql_file, content) ==
    Concat([n \in 1..Len(udf_functions) |-> CallsOf(udf_functions[n], sql_file, content)])

\* _extract_context_settings: per dimension the last match, no entry without one.
UseMatches(context_type, content) ==
    FindIter([j \in DOMAIN content |-> MatchUsePattern(context_type, content, j)], 1)

\* A mutant of ExtractContextSettings: the first match is the one kept.
ExtractFirstContextSettings(content) ==
    [context_type \in {t \in Range(context_types) : UseMatches(t, content) # <<>>} |->
        Head(UseMatches(context_type, content)).name]

ExtractContextSettings(content) ==
    [context_type \in {t \in Range(context_types) : UseMatches(t, content) # <<>>} |->
        Last(UseMatches(context_type, content)).name]

(***************************************************************************)
(* The validators: the issues each one appends, in order.                  *)
(***************************************************************************)
\* _validate_function_signatures: one call, at most one issue.
SignatureIssue(call, definitions) ==
    IF call.name \notin DOMAIN definitions
    THEN ValidationIssue("ERROR", "UNDEFINED_FUNCTION", call.file_path, call.line_number,
                         <<"Function", call.name, "is called but not defined">>,
                         <<"Ensure the function is created before calling it">>)
    ELSE LET definition == definitions[call.name]
             expected_params == Len(definition.parameters)
             actual_params == Len(call.parameters)
         IN  ValidationIssue("ERROR", "PARAMETER_MISMATCH", call.file_path,
                             call.line_number,
                             <<"Function", call.name, "expects">> \o Str(expected_params)
                                 \o <<"parameters but got">> \o Str(actual_params),
                             <<"Expected parameters:">> \o Join(definition.parameters))

\* A mutant of SignatureIssues: only too few arguments are a mismatch.
SignatureIssuesTooFewOnly(calls, definitions) ==
    LET flagged == SelectSeq(calls, LAMBDA call :
                       \/ call.name \notin DOMAIN definitions
                       \/ Len(call.parameters) < Len(definitions[call.name].parameters))
    IN  [k \in 1..Len(flagged) |-> SignatureIssue(flagged[k], definitions)]

\* A mutant of SignatureIssues: an undefined name is reported at its first
\* call only.
SignatureIssuesOncePerName(calls, definitions) ==
    LET first == SelectSeq([k \in DOMAIN calls |-> k], LAMBDA k :
                     \/ calls[k].name \in DOMAIN definitions
                     \/ \A j \in 1..(k - 1) : calls[j].name # calls[k].name)
        kept == [k \in DOMAIN first |-> calls[first[k]]]
        flagged == SelectSeq(kept, LAMBDA call :
                       \/ call.name \notin DOMAIN definitions
                       \/ Len(call.parameters) # Len(definitions[call.name].parameters))
    IN  [k \in 1..Len(flagged) |-> SignatureIssue(flagged[k], definitions)]

SignatureIssues(calls, definitions) ==
    LET flagged == SelectSeq(calls, LAMBDA call :
                       \/ call.name \notin DOMAIN definitions
                       \/ Len(call.parameters) # Len(definitions[call.name].parameters))
    IN  [k \in 1..Len(flagged) |-> SignatureIssue(flagged[k], definitions)]

\* A mutant of ContextIssue: a dimension that is set is reported, whatever
\* its value.
ContextIssueWhenSet(file_path, context, context_type) ==
    IF context_type \in DOMAIN context
    THEN <<ValidationIssue("WARNING", "CONTEXT_INCONSISTENCY", file_path, 0,
                           <<"Inconsistent", context_type, "expected",
                             expected_context[context_type], "found",
                             context[context_type]>>,
                           <<"USE", context_type, expected_context[context_type]>>)>>
    ELSE IF PathContains(file_path, "python_udfs")
    THEN <<ValidationIssue("ERROR", "MISSING_CONTEXT", file_path, 0,
                           <<"Missing", context_type, "context setting">>,
                           <<"USE", context_type, expected_context[context_type]>>)>>
    ELSE <<>>

\* _validate_context_consistency: one file and one dimension.
ContextIssue(file_path, context, context_type) ==
    LET expected_value == expected_context[context_type]
    IN  IF context_type \in DOMAIN context /\ context[context_type] # expected_value
        THEN <<ValidationIssue("WARNING", "CONTEXT_INCONSISTENCY", file_path, 0,
                               <<"Inconsistent", context_type, "expected", expected_value,
                                 "found", context[context_type]>>,
                               <<"USE", context_type, expected_value>>)>>
        ELSE IF context_type \notin DOMAIN context /\ PathContains(file_path, "python_udfs")
        THEN <<ValidationIssue("ERROR", "MISSING_CONTEXT", file_path, 0,
                               <<"Missing", context_type, "context setting">>,
                               <<"USE", context_type, expected_value>>)>>
        ELSE <<>>

\* A mutant of ContextIssues: no file is exempt.
ContextIssuesNoneExempt(settings) ==
    Concat([k \in 1..Len(settings) |->
        Concat([t \in 1..Len(context_types) |->
            ContextIssue(settings[k].file_path, settings[k].context, context_types[t])])])

ContextIssues(settings) ==
    Concat([k \in 1..Len(settings) |->
        IF PathContains(settings[k].file_path, "deploy_via_snowsight.sql") THEN <<>>
        ELSE Concat([t \in 1..Len(context_types) |->
                 ContextIssue(settings[k].file_path, settings[k].context,
                              context_types[t])])])

\* A mutant of DependencyIssues: with a setup script among the files, no
\* UDF script is reported.
DependencyIssuesUnlessSetup(settings) ==
    LET setup_files == SelectSeq(settings, LAMBDA e : PathContains(e.file_path, "setup.sql"))
        udf_files == SelectSeq(settings, LAMBDA e : PathContains(e.file_path, "python_udfs"))
        flagged == SelectSeq(udf_files, LAMBDA e : "WAREHOUSE" \notin DOMAIN e.context)
    IN  IF setup_files # <<>> THEN <<>>
        ELSE [k \in 1..Len(flagged) |->
                 ValidationIssue("ERROR", "DEPENDENCY_ORDER", flagged[k].file_path, 0,
                                 <<"UDF script doesn't set warehouse context">>,
                                 <<"Ensure setup script runs first or add warehouse context">>)]

\* _validate_dependency_order (setup_files is computed and not used)
DependencyIssues(settings) ==
    LET udf_files == SelectSeq(settings, LAMBDA e : PathContains(e.file_path, "python_udfs"))
        flagged == SelectSeq(udf_files, LAMBDA e : "WAREHOUSE" \notin DOMAIN e.context)
    IN  [k \in 1..Len(flagged) |->
            ValidationIssue("ERROR", "DEPENDENCY_ORDER", flagged[k].file_path, 0,
                            <<"UDF script doesn't set warehouse context">>,
                            <<"Ensure setup script runs first or add warehouse context">>)]

\* _validate_syntax_patterns: the two patterns over one file's text.
SyntaxFindings(sql_file, content) ==
    LET comments == FindIter([j \in DOMAIN content |-> MatchCommentSyntax(content, j)], 1)
        uuids == FindIter([j \in DOMAIN content |-> MatchUuidInValues(content, j)], 1)
    IN  [k \in 1..Len(comments) |->
            ValidationIssue("ERROR", "SYNTAX_ERROR", sql_file,
                            LineOf(content, comments[k].start),
                            <<"Incorrect COMMENT syntax">>,
                            <<"Use COMMENT = instead of COMMENT">>)]
        \o
        [k \in 1..Len(uuids) |->
            ValidationIssue("ERROR", "SYNTAX_ERROR", sql_file,
                            LineOf(content, uuids[k].start),
                            <<"UUID_STRING() function call in VALUES clause">>,
                            <<"Use SELECT statement instead of VALUES for function calls">>)]

\* A mutant of SyntaxIssuesOf: the text of a file that cannot be read is
\* scanned all the same.
SyntaxIssuesOfAnyFile(sql_file, file) == SyntaxFindings(sql_file, file.content)

\* _validate_syntax_patterns: one file; a file that cannot be read is passed over.
SyntaxIssuesOf(sql_file, file) ==
    IF ~file.readable THEN <<>> ELSE SyntaxFindings(sql_file, file.content)

SyntaxIssues(paths, fs) ==
    Concat([k \in 1..Len(paths) |-> SyntaxIssuesOf(paths[k], fs[paths[k]])])

\* A mutant of WarehouseIssues: the warning is given whenever no creation
\* is found, used or not.
WarehouseIssuesUnlessCreated(settings, fs) ==
    IF \E k \in 1..Len(settings) :
           ContainsPhrase(fs[settings[k].file_path].content, "CREATE", "WAREHOUSE")
    THEN <<>>
    ELSE <<ValidationIssue("WARNING", "WAREHOUSE_DEPENDENCY", <<>>, 0,
                           <<"Warehouse is used but creation not found in scripts">>,
                           <<"Ensure warehouse is created in setup script">>)>>

\* open(file_path, 'r') and f.read() of _validate_warehouse_usage: the bytes
\* are decoded in the locale's preferred encoding; cp1252 has no character
\* for the byte 8D.
Decodes(content, preferred) == preferred = "utf-8" \/ Magnifier \notin Range(content)

\* _validate_warehouse_usage: the files of context_settings are read again.
WarehouseIssues(settings, fs) ==
    LET warehouse_created ==
            \E k \in 1..Len(settings) :
                ContainsPhrase(fs[settings[k].file_path].content, "CREATE", "WAREHOUSE")
        warehouse_used ==
            \E k \in 1..Len(settings) :
                ContainsPhrase(fs[settings[k].file_path].content, "USE", "WAREHOUSE")
    IN  IF warehouse_used /\ ~warehouse_created
        THEN <<ValidationIssue("WARNING", "WAREHOUSE_DEPENDENCY", <<>>, 0,
                               <<"Warehouse is used but creation not found in scripts">>,
                               <<"Ensure warehouse is created in setup script">>)>>
        ELSE <<>>

\* len([i for i in issues if i.severity == 'ERROR'])
ErrorCount(list) == Cardinality({k \in 1..Len(list) : list[k].severity = "ERROR"})

\* The status the caller observes after sys.exit(n): its low eight bits.
ExitStatusRange == 256
ExitStatus(n) == n % ExitStatusRange

\* _generate_report: the parts printed; after the header either the line
\* that all passed, and nothing more, or the summary line, the issues by
\* severity and the two summaries of what was found.
Report(list, definitions, calls) ==
    LET WithSeverity(severity) == SelectSeq(list, LAMBDA i : i.severity = severity)
        errors == WithSeverity("ERROR")
        warnings == WithSeverity("WARNING")
        info == WithSeverity("INFO")
    IN  IF list = <<>>
        THEN [printed |-> {"header", "all passed"},
              summary |-> <<>>,
              listed |-> <<>>,
              definitions |-> <<>>,
              call_counts |-> <<>>]
        ELSE [printed |-> {"header", "summary", "issues", "definitions", "calls"},
              summary |-> <<Len(errors), Len(warnings), Len(info)>>,
              listed |-> errors \o warnings \o info,
              definitions |-> [name \in DOMAIN definitions |->
                                  Len(definitions[name].parameters)],
              call_counts |-> [name \in {calls[k].name : k \in DOMAIN calls} |->
                                  Cardinality({k \in DOMAIN calls : calls[k].name = name})]]

(***************************************************************************)
(* The corpora: statements as they are written in the scripts.             *)
(***************************************************************************)
UseStmt(gap, context_type, value) ==
    <<"USE">> \o gap \o <<context_type, " ", value, ";", "\n">>

CreateWarehouseStmt(replace) ==
    <<"CREATE", " ">> \o (IF replace THEN <<"OR", " ", "REPLACE", " ">> ELSE <<>>)
        \o <<"WAREHOUSE", " ", "RDF_DEMO_WH", ";", "\n">>

CreateFunctionStmt(name, params) ==
    <<"CREATE", " ", "OR", " ", "REPLACE", " ", "FUNCTION", " ", name, "(">> \o params
        \o <<")", " ", "RETURNS", " ", "STRING", ";", "\n">>

CallStmt(name, args) ==
    <<"SELECT", " ", name, "(">> \o Join(args) \o <<")", ";", "\n">>

CommentStmt(assigned) ==
    <<"CREATE", " ", "TABLE", " ", "T", " ", "COMMENT", " ">>
        \o (IF assigned THEN <<"=", " ">> ELSE <<>>) \o <<"'", "x", "'", ";", "\n">>

InsertUuidStmt ==
    <<"INSERT", " ", "INTO", " ", "T", " ", "VALUES", " ", "(", "UUID_STRING", "(", ")",
      ")", ";", "\n">>

BoundedSeq(S, n) == UNION {[1..k -> S] : k \in 0..n}

PathA == <<"a.sql">>
PathB == <<"b.sql">>
PathUdf == <<"python_udfs", "udf.sql">>
PathUdfDeploy == <<"python_udfs", "deploy_via_snowsight.sql">>

\* Statements of every kind the validators look at.
MixedPaths == {PathA, PathUdf}
MixedStmts ==
    {CreateFunctionStmt("GENERATE_ID", <<"x", " ", "INT">>),
     CallStmt("GENERATE_ID", <<<<"1">>, <<"2">>>>),
     UseStmt(<<" ">>, "WAREHOUSE", "OTHER_WH"),
     CommentStmt(FALSE),
     InsertUuidStmt}

\* Declarations and calls of the allowlisted functions.
SigPaths == {PathA, PathB}
SigStmts ==
    {CreateFunctionStmt("GENERATE_ID", <<"x", " ", "INT">>),
     CreateFunctionStmt("GENERATE_ID", <<"x", " ", "INT", ",", " ", "y", " ", "INT">>),
     <<"create", " ", "function", " ", "generate_id", "(", ")", ";", "\n">>,
     CallStmt("GENERATE_ID", <<<<"1">>>>),
     CallStmt("LOAD_RDF_DATA", <<<<"1">>>>)}

\* Calls of one allowlisted function with plain, quoted and nested arguments.
ArgCatalogue ==
    {<<"1">>,
     <<"\"", "a", ",", "b", "\"">>,
     <<"'", "a", ",", "b", "'">>,
     <<"H", "(", "1", ",", "2", ")">>,
     <<"'", "a", ")", "'">>}
ArgLists == BoundedSeq(ArgCatalogue, MaxArgs)

\* Declarations of one function with plain, typed-with-precision and
\* defaulted parameters.
ParamCatalogue ==
    {<<"a", " ", "INT">>,
     <<"b", " ", "NUMBER", "(", "10", ",", "2", ")">>,
     <<"c", " ", "INT", " ", "DEFAULT", " ", "G", "(", "1", ")">>}
ParamLists == BoundedSeq(ParamCatalogue, MaxArgs)

\* USE directives, in python_udfs with and without the exempt file name.
CtxPaths == {PathUdf, PathUdfDeploy}
CtxStmts ==
    {UseStmt(<<" ">>, "SCHEMA", "X"),
     UseStmt(<<" ">>, "SCHEMA", "SEMANTIC_VIEWS"),
     UseStmt(<<" ">>, "ROLE", "SYSADMIN"),
     UseStmt(<<" ">>, "DATABASE", "RDF_SEMANTIC_DB"),
     UseStmt(<<" ">>, "WAREHOUSE", "RDF_DEMO_WH")}

\* Statements that use and that create a warehouse.
WhPaths == {PathA, PathB}
WhStmts ==
    {UseStmt(<<" ">>, "WAREHOUSE", "RDF_DEMO_WH"),
     UseStmt(<<" ", " ">>, "WAREHOUSE", "RDF_DEMO_WH"),
     UseStmt(<<" ">>, "DATABASE", "RDF_SEMANTIC_DB"),
     CreateWarehouseStmt(FALSE),
     CreateWarehouseStmt(TRUE)}

\* A setup script that sorts after the UDF script, one that sorts before
\* it, and the UDF script.
PathSetup == <<"setup.sql">>
PathUdfSetup == <<"python_udfs", "setup.sql">>
DepPaths == {PathSetup, PathUdfSetup, PathUdf}
DepStmts ==
    {UseStmt(<<" ">>, "WAREHOUSE", "RDF_DEMO_WH"),
     UseStmt(<<" ">>, "DATABASE", "RDF_SEMANTIC_DB")}

\* A script of many calls: a line that calls the five allowlisted
\* functions, repeated, and single calls after it.
FiveCallsLine ==
    <<"SELECT", " ", "PARSE_RDF_SCHEMA", "(", ")", ",", "GENERATE_SEMANTIC_VIEW_DDL", "(",
      ")", ",", "LOAD_RDF_DATA", "(", ")", ",", "GENERATE_SNOWFLAKE_SEMANTIC_VIEW", "(",
      ")", ",", "GENERATE_ID", "(", ")", ";", "\n">>
OneCallLine == <<"SELECT", " ", "GENERATE_ID", "(", ")", ";", "\n">>

Repeat(s, k) == [i \in 1..(k * Len(s)) |-> s[((i - 1) % Len(s)) + 1]]

\* The numbers of repetitions tried, and of single calls after them.
ExitRepeats == {0, 1, MaxRepeat}
ExitSingles == 0..4

(***************************************************************************)
(* The state: the scripts on disk, and one process of main().              *)
(***************************************************************************)
VARIABLES
    files,                 \* path -> [readable, content]: the *.sql files under demo_root
    pc,                    \* the step main() and validate_all() are at
    sql_files,             \* validate_all's sql_files
    next_file,             \* the index of the file the parse loop is at
    issues,                \* self.issues
    function_definitions,  \* self.function_definitions
    function_calls,        \* self.function_calls
    context_settings,      \* self.context_settings, in insertion order
    report,                \* what _generate_report printed
    exit_status,           \* the status of the ended process, -1 while it runs
    run,                   \* 1 for the first process, 2 for the second
    first_run,             \* the issues, the status and the definitions of the first process
    tester,                \* the DryRunIntegrationTest process: pc, issues, success, exit_status
    encoding,              \* locale.getpreferredencoding(False) of the validator's process
    validators             \* the checks of validate_all's step 2, in the order they are called

vars == <<files, pc, sql_files, next_file, issues, function_definitions,
          function_calls, context_settings, report, exit_status, run, first_run, tester,
          encoding, validators>>

\* No integration test is running: the validator was started by hand.
NoTester ==
    [pc |-> "none", issues |-> <<>>, success |-> TRUE, report |-> "", exit_status |-> -1]

\* validate_all's step 2 as it is written.
validation_checks == <<"signatures", "context", "dependency", "syntax", "warehouse">>

\* The program as it is written, in a process whose locale decodes text as
\* UTF-8.
AsWritten ==
    /\ encoding = "utf-8"
    /\ validators = validation_checks

\* SQLValidator.__init__ in a new process.
Constructed ==
    /\ pc = "find"
    /\ sql_files = <<>>
    /\ next_file = 1
    /\ issues = <<>>
    /\ function_definitions = <<>>
    /\ function_calls = <<>>
    /\ context_settings = <<>>
    /\ report = <<>>
    /\ exit_status = -1

\* The scripts: some of the paths, up to MaxStmts statements written into
\* them, and some of the damaged ones not readable (or not UTF-8).
InitWith(paths, damaged, stmts) ==
    /\ \E P \in SUBSET paths :
       \E U \in SUBSET (P \cap damaged) :
       \E s \in BoundedSeq(stmts, MaxStmts) :
       \E owner \in [DOMAIN s -> P] :
           files = [p \in P |->
                       [readable |-> p \notin U,
                        content |-> LET mine == SelectSeq([k \in DOMAIN s |-> k],
                                                         LAMBDA k : owner[k] = p)
                                    IN  Concat([j \in DOMAIN mine |-> s[mine[j]]])]]
    /\ Constructed
    /\ run = 1
    /\ first_run = [issues |-> <<>>, exit_status |-> -1, function_definitions |-> <<>>]

Init == InitWith(MixedPaths, {PathA}, MixedStmts) /\ tester = NoTester /\ AsWritten

\* A mutant of FindSqlFiles: the paths are taken in the order glob yields them.
AsGlobbed(paths) == paths

\* _find_sql_files: glob yields the paths in some order, sorted() orders them.
FindSqlFiles(paths) == Sorted(paths)

Glob == Orders(DOMAIN files)

\* What validate_all does after a check: the next check, and the report
\* after the last one.
After(step) ==
    LET k == CHOOSE i \in DOMAIN validators : validators[i] = step
    IN  IF k = Len(validators) THEN "report" ELSE validators[k + 1]

\* validate_all up to its loop.
Find ==
    /\ pc = "find"
    /\ \E globbed \in Glob : sql_files' = FindSqlFiles(globbed)
    /\ pc' = IF files = <<>> THEN validators[1] ELSE "parse"
    /\ UNCHANGED <<files, encoding, validators,
                   next_file, issues, function_definitions, function_calls,
                   context_settings, report, exit_status, run, first_run, tester>>

\* A mutant of ParseSqlFile: a call is recorded only when its function is
\* declared by then.
ParseSqlFileDeclaredFirst ==
    /\ pc = "parse"
    /\ LET sql_file == sql_files[next_file]
           content == files[sql_file].content
       IN  IF files[sql_file].readable
           THEN /\ function_definitions' =
                       ExtractFunctionDefinitions(function_definitions, sql_file, content)
                /\ function_calls' =
                       function_calls
                           \o SelectSeq(ExtractFunctionCalls(sql_file, content),
                                        LAMBDA call : call.name \in DOMAIN function_definitions')
                /\ context_settings' =
                       Append(context_settings,
                              [file_path |-> sql_file,
                               context |-> ExtractContextSettings(content)])
                /\ UNCHANGED issues
           ELSE /\ issues' = Append(issues,
                       ValidationIssue("ERROR", "FILE_PARSING", sql_file, 0,
                                       <<"Failed to parse file">>, <<>>))
                /\ UNCHANGED <<function_definitions, function_calls, context_settings>>
    /\ next_file' = next_file + 1
    /\ pc' = IF next_file = Len(sql_files) THEN validators[1] ELSE "parse"
    /\ UNCHANGED <<files, encoding, validators, sql_files, report, exit_status, run,
                   first_run, tester>>

\* _parse_sql_file(sql_file): one turn of validate_all's loop.
ParseSqlFile ==
    /\ pc = "parse"
    /\ LET sql_file == sql_files[next_file]
           content == files[sql_file].content
       IN  IF files[sql_file].readable
           THEN /\ function_definitions' =
                       ExtractFunctionDefinitions(function_definitions, sql_file, content)
                /\ function_calls' =
                       function_calls \o ExtractFunctionCalls(sql_file, content)
                /\ context_settings' =
                       Append(context_settings,
                              [file_path |-> sql_file,
                               context |-> ExtractContextSettings(content)])
                /\ UNCHANGED issues
           ELSE /\ issues' = Append(issues,
                       ValidationIssue("ERROR", "FILE_PARSING", sql_file, 0,
                                       <<"Failed to parse file">>, <<>>))
                /\ UNCHANGED <<function_definitions, function_calls, context_settings>>
    /\ next_file' = next_file + 1
    /\ pc' = IF next_file = Len(sql_files) THEN validators[1] ELSE "parse"
    /\ UNCHANGED <<files, encoding, validators,
                   sql_files, report, exit_status, run, first_run, tester>>

\* A mutant of ValidateFunctionSignatures: the calls are not looked at once
\* a SYNTAX_ERROR is in the collection.
ValidateFunctionSignaturesUnlessSyntax ==
    /\ pc = "signatures"
    /\ issues' = IF \E i \in DOMAIN issues : issues[i].category = "SYNTAX_ERROR"
                 THEN issues
                 ELSE issues \o SignatureIssues(function_calls, function_definitions)
    /\ pc' = After("signatures")
    /\ UNCHANGED <<files, encoding, validators,
                   sql_files, next_file, function_definitions, function_calls,
                   context_settings, report, exit_status, run, first_run, tester>>

ValidateFunctionSignatures ==
    /\ pc = "signatures"
    /\ issues' = issues \o SignatureIssues(function_calls, function_definitions)
    /\ pc' = After("signatures")
    /\ UNCHANGED <<files, encoding, validators,
                   sql_files, next_file, function_definitions, function_calls,
                   context_settings, report, exit_status, run, first_run, tester>>

ValidateContextConsistency ==
    /\ pc = "context"
    /\ issues' = issues \o ContextIssues(context_settings)
    /\ pc' = After("context")
    /\ UNCHANGED <<files, encoding, validators,
                   sql_files, next_file, function_definitions, function_calls,
                   context_settings, report, exit_status, run, first_run, tester>>

ValidateDependencyOrder ==
    /\ pc = "dependency"
    /\ issues' = issues \o DependencyIssues(context_settings)
    /\ pc' = After("dependency")
    /\ UNCHANGED <<files, encoding, validators,
                   sql_files, next_file, function_definitions, function_calls,
                   context_settings, report, exit_status, run, first_run, tester>>

\* A mutant of ValidateSyntaxPatterns: the collection is kept with the
\* errors first.
ValidateSyntaxPatternsBySeverity ==
    /\ pc = "syntax"
    /\ \E globbed \in Glob :
           LET all == issues \o SyntaxIssues(FindSqlFiles(globbed), files)
           IN  issues' = SelectSeq(all, LAMBDA i : i.severity = "ERROR")
                             \o SelectSeq(all, LAMBDA i : i.severity # "ERROR")
    /\ pc' = After("syntax")
    /\ UNCHANGED <<files, encoding, validators,
                   sql_files, next_file, function_definitions, function_calls,
                   context_settings, report, exit_status, run, first_run, tester>>

ValidateSyntaxPatterns ==
    /\ pc = "syntax"
    /\ \E globbed \in Glob :
           issues' = issues \o SyntaxIssues(FindSqlFiles(globbed), files)
    /\ pc' = After("syntax")
    /\ UNCHANGED <<files, encoding, validators,
                   sql_files, next_file, function_definitions, function_calls,
                   context_settings, report, exit_status, run, first_run, tester>>

\* _validate_warehouse_usage; what open() or read() raises is caught
\* nowhere, and ends the process with a traceback and status 1.
ValidateWarehouseUsage ==
    /\ pc = "warehouse"
    /\ IF \A k \in DOMAIN context_settings :
              Decodes(files[context_settings[k].file_path].content, encoding)
       THEN /\ issues' = issues \o WarehouseIssues(context_settings, files)
            /\ pc' = After("warehouse")
            /\ UNCHANGED exit_status
       ELSE /\ pc' = "crashed"
            /\ exit_status' = 1
            /\ UNCHANGED issues
    /\ UNCHANGED <<files, encoding, validators, sql_files, next_file,
                   function_definitions, function_calls, context_settings, report, run,
                   first_run, tester>>

GenerateReport ==
    /\ pc = "report"
    /\ report' = Report(issues, function_definitions, function_calls)
    /\ pc' = "exit"
    /\ UNCHANGED <<files, encoding, validators,
                   sql_files, next_file, issues, function_definitions,
                   function_calls, context_settings, exit_status, run, first_run, tester>>

\* main() after validate_all: sys.exit(error_count).
Exit ==
    /\ pc = "exit"
    /\ exit_status' = ExitStatus(ErrorCount(issues))
    /\ pc' = "exited"
    /\ UNCHANGED <<files, encoding, validators,
                   sql_files, next_file, issues, function_definitions,
                   function_calls, context_settings, report, run, first_run, tester>>

\* The validator is started a second time over the same scripts.
RunAgain ==
    /\ pc = "exited"
    /\ run = 1
    /\ first_run' = [issues |-> issues, exit_status |-> exit_status,
                     function_definitions |-> function_definitions]
    /\ run' = 2
    /\ pc' = "find"
    /\ sql_files' = <<>>
    /\ next_file' = 1
    /\ issues' = <<>>
    /\ function_definitions' = <<>>
    /\ function_calls' = <<>>
    /\ context_settings' = <<>>
    /\ report' = <<>>
    /\ exit_status' = -1
    /\ UNCHANGED <<files, encoding, validators, tester>>

Next ==
    \/ Find
    \/ ParseSqlFile
    \/ ValidateFunctionSignatures
    \/ ValidateContextConsistency
    \/ ValidateDependencyOrder
    \/ ValidateSyntaxPatterns
    \/ ValidateWarehouseUsage
    \/ GenerateReport
    \/ Exit
    \/ RunAgain

Spec == Init /\ [][Next]_vars

InitSig == InitWith(SigPaths, {PathB}, SigStmts) /\ tester = NoTester /\ AsWritten
SpecSig == InitSig /\ [][Next]_vars

\* One script of 5 * k + j calls of functions that no script declares.
InitExit ==
    /\ \E k \in ExitRepeats :
       \E j \in ExitSingles :
           files = [p \in {PathA} |->
                       [readable |-> TRUE,
                        content |-> Repeat(FiveCallsLine, k) \o Repeat(OneCallLine, j)]]
    /\ Constructed
    /\ run = 1
    /\ first_run = [issues |-> <<>>, exit_status |-> -1, function_definitions |-> <<>>]
    /\ tester = NoTester /\ AsWritten
SpecExit == InitExit /\ [][Next]_vars

\* One script of one call.
InitArgs ==
    /\ \E args \in ArgLists :
           files = [p \in {PathA} |->
                       [readable |-> TRUE, content |-> CallStmt("GENERATE_ID", args)]]
    /\ Constructed
    /\ run = 1
    /\ first_run = [issues |-> <<>>, exit_status |-> -1, function_definitions |-> <<>>]
    /\ tester = NoTester /\ AsWritten
SpecArgs == InitArgs /\ [][Next]_vars

\* One script of one declaration.
InitDecl ==
    /\ \E params \in ParamLists :
           files = [p \in {PathA} |->
                       [readable |-> TRUE, content |-> CreateFunctionStmt("F", Join(params))]]
    /\ Constructed
    /\ run = 1
    /\ first_run = [issues |-> <<>>, exit_status |-> -1, function_definitions |-> <<>>]
    /\ tester = NoTester /\ AsWritten
SpecDecl == InitDecl /\ [][Next]_vars

InitCtx == InitWith(CtxPaths, {PathUdf}, CtxStmts) /\ tester = NoTester /\ AsWritten
SpecCtx == InitCtx /\ [][Next]_vars

InitWh == InitWith(WhPaths, {PathB}, WhStmts) /\ tester = NoTester /\ AsWritten
SpecWh == InitWh /\ [][Next]_vars

InitDep == InitWith(DepPaths, {PathUdf}, DepStmts) /\ tester = NoTester /\ AsWritten
SpecDep == InitDep /\ [][Next]_vars

\* The five checks called in another order than the written one: one UDF
\* script of calls, and of warehouse directives with a COMMENT clause each.
AnyOrderStmts ==
    {CallStmt("GENERATE_ID", <<<<"1">>>>),
     UseStmt(<<" ">>, "WAREHOUSE", "OTHER_WH") \o CommentStmt(FALSE)}

InitAnyOrder ==
    /\ InitWith({PathUdf}, {}, AnyOrderStmts)
    /\ tester = NoTester
    /\ encoding = "utf-8"
    /\ validators \in Orders(Range(validation_checks))
SpecAnyOrder == InitAnyOrder /\ [][Next]_vars

\* The files parsed in another order than the sorted one: the first
\* process is the program, the second takes the files as glob yields them.
FindSorted == run = 1 /\ Find

FindAsGlobbed ==
    /\ run = 2
    /\ pc = "find"
    /\ \E globbed \in Glob : sql_files' = globbed
    /\ pc' = IF files = <<>> THEN validators[1] ELSE "parse"
    /\ UNCHANGED <<files, encoding, validators, next_file, issues, function_definitions,
                   function_calls, context_settings, report, exit_status, run, first_run,
                   tester>>

NextAnyFileOrder ==
    \/ FindSorted
    \/ FindAsGlobbed
    \/ ParseSqlFile
    \/ ValidateFunctionSignatures
    \/ ValidateContextConsistency
    \/ ValidateDependencyOrder
    \/ ValidateSyntaxPatterns
    \/ ValidateWarehouseUsage
    \/ GenerateReport
    \/ Exit
    \/ RunAgain

\* Two scripts of declarations and calls of one function.
FileOrderStmts ==
    {CreateFunctionStmt("GENERATE_ID", <<"x", " ", "INT">>),
     CreateFunctionStmt("GENERATE_ID", <<"x", " ", "INT", ",", " ", "y", " ", "INT">>),
     CallStmt("GENERATE_ID", <<<<"1">>>>)}

InitFileOrder ==
    InitWith({PathA, PathB}, {PathB}, FileOrderStmts) /\ tester = NoTester /\ AsWritten
SpecFileOrder == InitFileOrder /\ [][NextAnyFileOrder]_vars

\* A comment line with a character outside ASCII.
NoteStmt == <<"-", "-", " ", Magnifier, " ", "setup", "\n">>

\* One script, in a process whose locale is UTF-8 or cp1252.  The process
\* is not stopped from outside: a step it can take, it takes.
LocaleStmts ==
    {NoteStmt,
     UseStmt(<<" ">>, "WAREHOUSE", "RDF_DEMO_WH"),
     CallStmt("GENERATE_ID", <<<<"1">>>>)}

InitLocale ==
    /\ InitWith({PathA}, {PathA}, LocaleStmts)
    /\ tester = NoTester
    /\ encoding \in {"utf-8", "cp1252"}
    /\ validators = validation_checks

\* A process that is left to run takes the step it is at.  The parse loop
\* can take its turn exactly when pc = "parse", and its weak fairness is
\* written with that condition.
Fairness ==
    /\ WF_vars(Find)
    /\ ([]<>(pc # "parse") \/ []<><<ParseSqlFile>>_vars)
    /\ WF_vars(ValidateFunctionSignatures)
    /\ WF_vars(ValidateContextConsistency)
    /\ WF_vars(ValidateDependencyOrder)
    /\ WF_vars(ValidateSyntaxPatterns)
    /\ WF_vars(ValidateWarehouseUsage)
    /\ WF_vars(GenerateReport)
    /\ WF_vars(Exit)
    /\ WF_vars(RunAgain)

SpecLocale == InitLocale /\ [][Next]_vars /\ Fairness

(***************************************************************************)
(* tests/dry_run_integration_test.py: DryRunIntegrationTest and main.  Its *)
(* process is tester; the validator it starts as a child process is the    *)
(* process above, over the same files.                                     *)
(***************************************************************************)
script_order ==
    <<<<"sql", "01_setup_environment.sql">>,
      <<"python_udfs", "rdf_parser_udf.sql">>,
      <<"python_udfs", "semantic_view_generator_udf.sql">>,
      <<"python_udfs", "rdf_data_loader_udf.sql">>,
      <<"sql", "02_run_conversion_demo.sql">>,
      <<"sql", "03_create_semantic_views_demo.sql">>>>

required_tables ==
    <<"RDF_SCHEMAS", "CONVERSION_RESULTS", "PRODUCT", "CATEGORY", "CUSTOMER", "ORDER_",
      "SUPPLIER", "ORDERITEM">>

required_views ==
    <<"SV_PRODUCT", "SV_CATEGORY", "SV_CUSTOMER", "SV_ORDER", "SV_SUPPLIER",
      "SV_ORDERITEM", "SV_PRODUCT_METRICS", "SV_ORDER_METRICS", "SV_CUSTOMER_METRICS">>

\* DryRunIntegrationTest.__init__, before run_comprehensive_test's first step.
NewTester ==
    [pc |-> "syntax", issues |-> <<>>, success |-> TRUE, report |-> "", exit_status |-> -1]

TestIssue(severity, description) == [severity |-> severity, description |-> description]

\* A mutant of AddIssue: the issue is recorded and the flag left alone.
AddIssueOnly(t, issue) == [t EXCEPT !.issues = Append(@, issue)]

\* _add_issue
AddIssue(t, issue) ==
    [t EXCEPT !.issues = Append(@, issue),
              !.success = IF issue.severity = "ERROR" THEN FALSE ELSE @]

\* _add_issue, issue by issue of a list
RECURSIVE AddIssues(_, _)
AddIssues(t, list) ==
    IF list = <<>> THEN t ELSE AddIssues(AddIssue(t, Head(list)), Tail(list))

\* re.search of the three issue_checks patterns
HasUuidInValues(content) ==
    \E i \in DOMAIN content : MatchUuidInValues(content, i).end # 0

\* COMMENT\s+["'][^=]
HasCommentSyntax(content) ==
    \E i \in DOMAIN content :
        LET q == Spaces1(content, Lit(content, i, "COMMENT"))
        IN  /\ q # 0
            /\ q + 1 <= Len(content)
            /\ content[q] \in {"\"", "'"}
            /\ content[q + 1] # "="

\* \$\w+
HasVariable(content) ==
    \E i \in DOMAIN content : Word(content, Chr(content, i, "$")) # 0

\* _check_basic_sql_syntax: the issues of issue_checks, in their order.
BasicSyntaxIssues(sql_file, content) ==
    (IF HasUuidInValues(content)
     THEN <<TestIssue("WARNING", <<Last(sql_file), "UUID_STRING in VALUES clause">>)>>
     ELSE <<>>)
    \o (IF HasCommentSyntax(content)
        THEN <<TestIssue("WARNING", <<Last(sql_file), "Incorrect COMMENT syntax">>)>>
        ELSE <<>>)
    \o (IF HasVariable(content)
        THEN <<TestIssue("WARNING", <<Last(sql_file), "Unresolved variables">>)>>
        ELSE <<>>)

\* _test_sql_syntax: one file; a file that cannot be read is an ERROR.
SyntaxTestIssues(sql_file, file) ==
    IF file.readable THEN BasicSyntaxIssues(sql_file, file.content)
    ELSE <<TestIssue("ERROR", <<"Failed to read">> \o sql_file)>>

\* _validate_script_dependencies of a script that was read.
ScriptDependencyIssues(script_path, content) ==
    LET required_contexts == <<"DATABASE", "SCHEMA">>
        missing == SelectSeq(required_contexts, LAMBDA context :
                       /\ ~ContainsPhrase(content, "USE", context)
                       /\ PathContains(script_path, "python_udfs"))
    IN  [k \in 1..Len(missing) |->
            TestIssue("INFO", <<Last(script_path), "Missing USE", missing[k],
                                "(should be set)">>)]

\* _test_execution_order: one script of script_order that its loop gets to.
ScriptIssues(script_path, fs) ==
    IF script_path \in DOMAIN fs
    THEN ScriptDependencyIssues(script_path, fs[script_path].content)
    ELSE <<TestIssue("ERROR", <<"Missing required script:">> \o script_path)>>

\* The scripts of script_order that exist and cannot be read: open() in
\* _validate_script_dependencies raises at the first of them.
UnreadableScripts(fs) ==
    {k \in DOMAIN script_order :
        script_order[k] \in DOMAIN fs /\ ~fs[script_order[k]].readable}

\* pattern of _check_object_creation:
\* CREATE\s+(?:OR\s+REPLACE\s+)?<object_type>\s+(\w+)
MatchCreatePattern(object_type, c, i) ==
    LET p1 == Spaces1(c, Lit(c, i, "CREATE"))
        p2 == Spaces1(c, Lit(c, Spaces1(c, Lit(c, p1, "OR")), "REPLACE"))
        p3 == Spaces1(c, Lit(c, IF p2 # 0 THEN p2 ELSE p1, object_type))
    IN  IF Lit(c, i, "CREATE") = 0 \/ Word(c, p3) = 0 THEN NoMatch
        ELSE [start |-> i, end |-> p3, name |-> c[p3], group |-> <<>>]

\* _check_object_creation: created_objects over the files.
CreatedObjects(object_type, fs) ==
    UNION {{Upper(m.name) :
               m \in Range(FindIter([j \in DOMAIN fs[p].content |->
                                        MatchCreatePattern(object_type, fs[p].content, j)],
                                    1))} :
           p \in DOMAIN fs}

\* _check_object_creation: a WARNING for each name that is not created.
ObjectIssues(object_names, object_type, fs) ==
    LET created_objects == CreatedObjects(object_type, fs)
        absent == SelectSeq(object_names, LAMBDA obj_name :
                      Upper(obj_name) \notin created_objects)
    IN  [k \in 1..Len(absent) |->
            TestIssue("WARNING", <<"Required", object_type, absent[k],
                                   "not found in scripts">>)]

\* The verdict _generate_final_report prints.
FinalReport(list) ==
    IF list = <<>> THEN "ALL TESTS PASSED"
    ELSE IF \E k \in DOMAIN list : list[k].severity = "ERROR"
    THEN "INTEGRATION TEST FAILED"
    ELSE "INTEGRATION TEST PASSED WITH WARNINGS"

\* The state of the validator process and the files; the tester's own steps
\* leave them as they are.
validator_vars ==
    <<files, pc, sql_files, next_file, issues, function_definitions, function_calls,
      context_settings, report, exit_status, run, first_run, encoding, validators>>

\* An exception that nothing catches ends the process with status 1.
Crashed(t) == [t EXCEPT !.pc = "crashed", !.exit_status = 1]

\* _test_sql_syntax: the files in the order glob yields them.
TestSqlSyntax ==
    /\ tester.pc = "syntax"
    /\ \E globbed \in Glob :
           tester' = [AddIssues(tester,
                                Concat([k \in DOMAIN globbed |->
                                           SyntaxTestIssues(globbed[k], files[globbed[k]])]))
                          EXCEPT !.pc = "order"]
    /\ UNCHANGED validator_vars

\* _test_execution_order: script by script, up to one that cannot be read.
TestExecutionOrder ==
    /\ tester.pc = "order"
    /\ LET unreadable == UnreadableScripts(files)
           reached == IF unreadable = {} THEN Len(script_order) ELSE Min(unreadable) - 1
           added == AddIssues(tester,
                              Concat([k \in 1..reached |-> ScriptIssues(script_order[k], files)]))
       IN  tester' = IF unreadable = {} THEN [added EXCEPT !.pc = "udf"] ELSE Crashed(added)
    /\ UNCHANGED validator_vars

\* The child process of _test_udf_consistency: main() of the validator.
Child ==
    /\ tester.pc = "udf"
    /\ \/ Find
       \/ ParseSqlFile
       \/ ValidateFunctionSignatures
       \/ ValidateContextConsistency
       \/ ValidateDependencyOrder
       \/ ValidateSyntaxPatterns
       \/ ValidateWarehouseUsage
       \/ GenerateReport
       \/ Exit

\* _test_udf_consistency when subprocess.run raises: the child never started.
UdfValidationNotRun ==
    /\ tester.pc = "udf"
    /\ pc = "find"
    /\ tester' = [AddIssue(tester, TestIssue("WARNING", <<"Could not run UDF validation">>))
                     EXCEPT !.pc = "data_flow"]
    /\ UNCHANGED validator_vars

\* _test_udf_consistency once the child has ended: result.returncode.
TestUdfConsistency ==
    /\ tester.pc = "udf"
    /\ pc \in {"exited", "crashed"}
    /\ tester' = [(IF exit_status = 0 THEN tester
                   ELSE AddIssue(tester, TestIssue("ERROR",
                                     <<"UDF consistency validation failed">>)))
                     EXCEPT !.pc = "data_flow"]
    /\ UNCHANGED validator_vars

\* _test_data_flow: _check_object_creation opens every file, and no one
\* catches what open() or read() raises.
TestDataFlow ==
    /\ tester.pc = "data_flow"
    /\ tester' = IF \E p \in DOMAIN files : ~files[p].readable THEN Crashed(tester)
                 ELSE [AddIssues(tester,
                                 ObjectIssues(required_tables, "TABLE", files)
                                     \o ObjectIssues(required_views, "VIEW", files))
                          EXCEPT !.pc = "workflow"]
    /\ UNCHANGED validator_vars

\* _test_workflow_simulation: prints its steps.
TestWorkflowSimulation ==
    /\ tester.pc = "workflow"
    /\ tester' = [tester EXCEPT !.pc = "report"]
    /\ UNCHANGED validator_vars

GenerateFinalReport ==
    /\ tester.pc = "report"
    /\ tester' = [tester EXCEPT !.pc = "exit", !.report = FinalReport(tester.issues)]
    /\ UNCHANGED validator_vars

\* main() of the test: sys.exit(0 if success else 1).
ExitTest ==
    /\ tester.pc = "exit"
    /\ tester' = [tester EXCEPT !.pc = "exited",
                                !.exit_status = IF tester.success THEN 0 ELSE 1]
    /\ UNCHANGED validator_vars

NextTest ==
    \/ TestSqlSyntax
    \/ TestExecutionOrder
    \/ Child
    \/ UdfValidationNotRun
    \/ TestUdfConsistency
    \/ TestDataFlow
    \/ TestWorkflowSimulation
    \/ GenerateFinalReport
    \/ ExitTest

\* Statements that create a table or a view.
CreateObjectStmt(replace, object_type, guarded, name) ==
    <<"CREATE", " ">> \o (IF replace THEN <<"OR", " ", "REPLACE", " ">> ELSE <<>>)
        \o <<object_type, " ">>
        \o (IF guarded THEN <<"IF", " ", "NOT", " ", "EXISTS", " ">> ELSE <<>>)
        \o <<name, ";", "\n">>

ObjPaths == {PathA, PathB}
ObjStmts ==
    {CreateObjectStmt(FALSE, "TABLE", FALSE, "PRODUCT"),
     CreateObjectStmt(TRUE, "VIEW", FALSE, "SV_PRODUCT"),
     CreateObjectStmt(FALSE, "TABLE", TRUE, "CATEGORY")}

InitObjects == InitWith(ObjPaths, {PathB}, ObjStmts) /\ tester = NewTester /\ AsWritten
SpecObjects == InitObjects /\ [][NextTest]_vars

\* What the expected scripts hold: nothing, the four directives with the
\* expected values, or the database directive alone.
OrderBodies ==
    {<<>>,
     UseStmt(<<" ">>, "ROLE", "SYSADMIN") \o UseStmt(<<" ">>, "WAREHOUSE", "RDF_DEMO_WH")
         \o UseStmt(<<" ">>, "DATABASE", "RDF_SEMANTIC_DB")
         \o UseStmt(<<" ">>, "SCHEMA", "SEMANTIC_VIEWS"),
     UseStmt(<<" ">>, "DATABASE", "RDF_SEMANTIC_DB")}

\* Some of the expected scripts exist; the second may be unreadable.
InitOrder ==
    /\ \E P \in SUBSET Range(script_order) :
       \E U \in SUBSET (P \cap {script_order[2]}) :
       \E body \in OrderBodies :
           files = [p \in P |-> [readable |-> p \notin U, content |-> body]]
    /\ Constructed
    /\ run = 1
    /\ first_run = [issues |-> <<>>, exit_status |-> -1, function_definitions |-> <<>>]
    /\ tester = NewTester /\ AsWritten
SpecOrder == InitOrder /\ [][NextTest]_vars

\* The integration test over one script outside python_udfs: many calls of
\* functions that no script declares, or one comment line; the child's
\* locale is UTF-8 or cp1252.
InitUdf ==
    /\ \E body \in {Repeat(FiveCallsLine, k) \o Repeat(OneCallLine, j) :
                        k \in ExitRepeats, j \in ExitSingles} \cup {NoteStmt} :
           files = [p \in {PathA} |-> [readable |-> TRUE, content |-> body]]
    /\ Constructed
    /\ run = 1
    /\ first_run = [issues |-> <<>>, exit_status |-> -1, function_definitions |-> <<>>]
    /\ tester = NewTester
    /\ encoding \in {"utf-8", "cp1252"}
    /\ validators = validation_checks
SpecUdf == InitUdf /\ [][NextTest]_vars

(***************************************************************************)
(* The claims.                                                             *)
(***************************************************************************)
Steps ==
    <<"find", "parse", "signatures", "context", "dependency", "syntax", "warehouse",
      "report", "exit", "exited">>
StepIndex(step) == CHOOSE k \in DOMAIN Steps : Steps[k] = step

\* The step has been taken in this process.
Past(step) == StepIndex(pc) > StepIndex(step)

\* The recorded calls of call's name at call's file and line.
CallsAt(call) ==
    {j \in DOMAIN function_calls :
        /\ function_calls[j].name = call.name
        /\ function_calls[j].file_path = call.file_path
        /\ function_calls[j].line_number = call.line_number}

\* The issues of a signature category raised for call's name at call's file and line.
RaisedAt(call, category) ==
    {i \in DOMAIN issues :
        /\ issues[i].category = category
        /\ issues[i].file_path = call.file_path
        /\ issues[i].line_number = call.line_number
        /\ issues[i].description[2] = call.name}

WithCategory(category) == {i \in DOMAIN issues : issues[i].category = category}

\* C1: once _validate_function_signatures has run, every recorded call of a
\* function whose current definition has n parameters has exactly one
\* PARAMETER_MISMATCH ERROR (suggesting the expected parameter names) when
\* its argument count differs from n and no signature issue when it is n.
C1_MismatchIffCountsDiffer ==
    Past("signatures") =>
        \A k \in DOMAIN function_calls :
            LET call == function_calls[k]
            IN  call.name \in DOMAIN function_definitions =>
                LET definition == function_definitions[call.name]
                    n == Len(definition.parameters)
                IN  /\ Cardinality(RaisedAt(call, "PARAMETER_MISMATCH"))
                           = Cardinality({j \in CallsAt(call) :
                                             Len(function_calls[j].parameters) # n})
                    /\ RaisedAt(call, "UNDEFINED_FUNCTION") = {}
                    /\ \A i \in RaisedAt(call, "PARAMETER_MISMATCH") :
                           /\ issues[i].severity = "ERROR"
                           /\ issues[i].suggestion
                                  = <<"Expected parameters:">> \o Join(definition.parameters)

\* C1's case: F(x, y) declared in one file, F(1) called in another, one
\* PARAMETER_MISMATCH at the call's line.
C1_Witness ==
    /\ pc = "exited"
    /\ \E k \in DOMAIN function_calls :
           LET call == function_calls[k]
           IN  /\ call.name \in DOMAIN function_definitions
               /\ function_definitions[call.name].file_path # call.file_path
               /\ Len(function_definitions[call.name].parameters) = 2
               /\ Len(call.parameters) = 1
               /\ Cardinality(RaisedAt(call, "PARAMETER_MISMATCH")) = 1
               /\ Cardinality(WithCategory("PARAMETER_MISMATCH")) = 1

\* C2: once _validate_function_signatures has run, every recorded call of a
\* name without a definition has its own UNDEFINED_FUNCTION ERROR (k call
\* sites give k issues) and no PARAMETER_MISMATCH.
C2_UndefinedPerCallSite ==
    Past("signatures") =>
        /\ \A k \in DOMAIN function_calls :
               LET call == function_calls[k]
               IN  call.name \notin DOMAIN function_definitions =>
                   /\ Cardinality(RaisedAt(call, "UNDEFINED_FUNCTION"))
                          = Cardinality(CallsAt(call))
                   /\ RaisedAt(call, "PARAMETER_MISMATCH") = {}
                   /\ \A i \in RaisedAt(call, "UNDEFINED_FUNCTION") :
                          issues[i].severity = "ERROR"
        /\ Cardinality(WithCategory("UNDEFINED_FUNCTION"))
               = Cardinality({k \in DOMAIN function_calls :
                                 function_calls[k].name \notin DOMAIN function_definitions})

\* C2's case: two call sites of one undefined name, two issues.
C2_Witness ==
    /\ pc = "exited"
    /\ \E j, k \in DOMAIN function_calls :
           /\ j # k
           /\ function_calls[j].name = function_calls[k].name
           /\ function_calls[j].name \notin DOMAIN function_definitions
           /\ Cardinality(WithCategory("UNDEFINED_FUNCTION")) = 2

\* The declarations of name that a text holds, in order.
Declarations(content, name) ==
    SelectSeq(FindIter([j \in DOMAIN content |-> MatchFunctionPattern(content, j)], 1),
              LAMBDA m : Upper(m.name) = name)

\* The table's entry of name is the last declaration of the last declaring
\* file in path order; found[p] are the declarations the parsed file p holds.
HoldsLastOf(name, found) ==
    LET declaring == {p \in DOMAIN found : found[p] # <<>>}
    IN  IF declaring = {} THEN name \notin DOMAIN function_definitions
        ELSE LET last == CHOOSE p \in declaring :
                             \A q \in declaring : q = p \/ PathLess(q, p)
                 d == Last(found[last])
             IN  /\ name \in DOMAIN function_definitions
                 /\ function_definitions[name].file_path = last
                 /\ function_definitions[name].line_number
                        = LineOf(files[last].content, d.start)
                 /\ function_definitions[name].parameters = ParseParameters(d.group)

\* C4: once every file is parsed, the table holds a name iff a parsed file
\* declares it, and holds the last declaration of the last declaring file
\* in sorted path order.
C4_LastFileWins ==
    Past("parse") =>
        \A name \in {"GENERATE_ID"} \cup DOMAIN function_definitions :
            HoldsLastOf(name, [p \in DOMAIN files |->
                                  IF files[p].readable
                                  THEN Declarations(files[p].content, name) ELSE <<>>])

\* C4's case: a.sql declares F with one parameter, b.sql with two, and the
\* table holds the two.
C4_Witness ==
    /\ pc = "exited"
    /\ DOMAIN files = {PathA, PathB}
    /\ files[PathA].content = CreateFunctionStmt("GENERATE_ID", <<"x", " ", "INT">>)
    /\ files[PathB].readable
    /\ files[PathB].content
           = CreateFunctionStmt("GENERATE_ID", <<"x", " ", "INT", ",", " ", "y", " ", "INT">>)
    /\ Len(function_definitions["GENERATE_ID"].parameters) = 2

\* C3: the status the caller observes is the number of ERROR issues, and is
\* 0 iff the run collected no ERROR issue.
C3_ExitStatusIsErrorCount ==
    pc = "exited" =>
        /\ exit_status = ErrorCount(issues)
        /\ exit_status = 0 <=> ErrorCount(issues) = 0

\* C5: a second process over the same scripts ends with the same issues in
\* the same order and with the same status as the first.
C5_SecondRunSame ==
    (run = 2 /\ pc = "exited") =>
        /\ issues = first_run.issues
        /\ exit_status = first_run.exit_status

\* C5's case: both processes have ended, with issues of two files.
C5_Witness ==
    /\ run = 2
    /\ pc = "exited"
    /\ \E i, j \in DOMAIN issues :
           /\ issues[i].file_path = PathA
           /\ issues[j].file_path = PathUdf
    /\ first_run.exit_status > 0

IssuesOf(p) == {i \in DOMAIN issues : issues[i].file_path = p}
SettingsOf(p) == {k \in DOMAIN context_settings : context_settings[k].file_path = p}

\* C10: a file that cannot be read has no issue but one FILE_PARSING ERROR,
\* raised when the loop reaches it, and no definition, call or context
\* entry; every file that can be read is parsed (it has its context entry)
\* and validated (its syntax issues are raised).
C10_UnreadableFileOneIssue ==
    \A p \in DOMAIN files :
        IF files[p].readable
        THEN /\ Past("parse") => Cardinality(SettingsOf(p)) = 1
             /\ Past("syntax") =>
                    Range(SyntaxFindings(p, files[p].content))
                        \subseteq {issues[i] : i \in IssuesOf(p)}
        ELSE /\ \A i \in IssuesOf(p) :
                    /\ issues[i].severity = "ERROR"
                    /\ issues[i].category = "FILE_PARSING"
             /\ Cardinality(IssuesOf(p)) <= 1
             /\ Past("parse") => Cardinality(IssuesOf(p)) = 1
             /\ SettingsOf(p) = {}
             /\ \A k \in DOMAIN function_calls : function_calls[k].file_path # p
             /\ \A name \in DOMAIN function_definitions :
                    function_definitions[name].file_path # p

\* C10's case: a.sql cannot be read though it holds a COMMENT without "=",
\* and python_udfs/udf.sql is parsed and has its issues.
C10_Witness ==
    /\ pc = "exited"
    /\ PathA \in DOMAIN files
    /\ ~files[PathA].readable
    /\ SyntaxFindings(PathA, files[PathA].content) # <<>>
    /\ Cardinality(IssuesOf(PathA)) = 1
    /\ PathUdf \in DOMAIN files
    /\ SettingsOf(PathUdf) # {}
    /\ \E i \in IssuesOf(PathUdf) : issues[i].category = "SYNTAX_ERROR"

\* An argument as written that holds a closing parenthesis.
Closes(arg) == \E i \in DOMAIN arg : arg[i] = ")"

\* What is recorded of the arguments as written: they themselves up to the
\* first closing parenthesis, where the call pattern's group ends.
Recorded(args) ==
    LET closing == {k \in DOMAIN args : Closes(args[k])}
    IN  IF closing = {} THEN args
        ELSE LET k == Min(closing)
                 cut == Min({i \in DOMAIN args[k] : args[k][i] = ")"})
             IN  SubSeq(args, 1, k - 1) \o <<SubSeq(args[k], 1, cut - 1)>>

\* C6: the recorded arguments of a call are the arguments as written, one
\* for one, up to the call pattern's end: no comma inside a quoted literal
\* or inside a nested call splits one.
C6_InnerCommasDoNotSplit ==
    Past("parse") =>
        \A args \in ArgLists :
            files[PathA].content = CallStmt("GENERATE_ID", args) =>
                /\ Len(function_calls) = 1
                /\ function_calls[1].parameters = Recorded(args)
                /\ Len(function_calls[1].parameters) <= Len(args)

\* C6's case: G("a,b", H(1,2)) is recorded with two arguments.
C6_Witness ==
    /\ pc = "exited"
    /\ files[PathA].content
           = CallStmt("GENERATE_ID", <<<<"\"", "a", ",", "b", "\"">>,
                                       <<"H", "(", "1", ",", "2", ")">>>>)
    /\ Len(function_calls) = 1
    /\ Len(function_calls[1].parameters) = 2

\* The values of the directives of a dimension in a text, in order.
Directives(content, context_type) ==
    LET at == {i \in DOMAIN content : MatchUsePattern(context_type, content, i).end # 0}
    IN  [i \in at |-> MatchUsePattern(context_type, content, i).name]

\* C7: the context recorded for a file holds, per dimension, the value of
\* the last directive of the file, and no entry for a dimension without one.
C7_LastDirectiveWins ==
    \A k \in DOMAIN context_settings :
        LET content == files[context_settings[k].file_path].content
            context == context_settings[k].context
        IN  \A t \in Range(context_types) :
                LET found == Directives(content, t)
                IN  IF DOMAIN found = {} THEN t \notin DOMAIN context
                    ELSE /\ t \in DOMAIN context
                         /\ context[t]
                                = found[CHOOSE i \in DOMAIN found :
                                            \A j \in DOMAIN found : j <= i]

\* C7's case: USE SCHEMA X, then USE SCHEMA SEMANTIC_VIEWS, and no other
\* directive.
C7_Witness ==
    /\ pc = "exited"
    /\ \E k \in DOMAIN context_settings :
           /\ files[context_settings[k].file_path].content
                  = UseStmt(<<" ">>, "SCHEMA", "X")
                        \o UseStmt(<<" ">>, "SCHEMA", "SEMANTIC_VIEWS")
           /\ DOMAIN context_settings[k].context = {"SCHEMA"}
           /\ context_settings[k].context["SCHEMA"] = "SEMANTIC_VIEWS"

MissingContext(p, t) ==
    {i \in DOMAIN issues :
        /\ issues[i].category = "MISSING_CONTEXT"
        /\ issues[i].file_path = p
        /\ issues[i].description = <<"Missing", t, "context setting">>}

HasDirective(p, t) ==
    \E i \in DOMAIN files[p].content : MatchUsePattern(t, files[p].content, i).end # 0

\* C8 as claimed: every file under python_udfs without a directive for a
\* dimension has exactly one MISSING_CONTEXT ERROR for that dimension.
C8_AsClaimed ==
    Past("context") =>
        \A p \in DOMAIN files :
            \A t \in Range(context_types) :
                (PathContains(p, "python_udfs") /\ ~HasDirective(p, t)) =>
                    Cardinality(MissingContext(p, t)) = 1

\* C8: every parsed file under python_udfs whose name is not the exempt
\* deploy_via_snowsight.sql has exactly one MISSING_CONTEXT ERROR for each
\* dimension it has no directive for, and none for the others; an exempt
\* file and a file that could not be read have none.
C8_MissingContextUnlessExempt ==
    Past("context") =>
        \A p \in DOMAIN files :
            \A t \in Range(context_types) :
                /\ \A i \in MissingContext(p, t) : issues[i].severity = "ERROR"
                /\ Cardinality(MissingContext(p, t))
                       = IF /\ files[p].readable
                            /\ PathContains(p, "python_udfs")
                            /\ ~PathContains(p, "deploy_via_snowsight.sql")
                            /\ ~HasDirective(p, t)
                         THEN 1 ELSE 0

\* C8's case: python_udfs/udf.sql has directives but none for WAREHOUSE and
\* has its issue; python_udfs/deploy_via_snowsight.sql has none either and
\* has no issue.
C8_Witness ==
    /\ pc = "exited"
    /\ DOMAIN files = {PathUdf, PathUdfDeploy}
    /\ files[PathUdf].readable
    /\ files[PathUdf].content # <<>>
    /\ ~HasDirective(PathUdf, "WAREHOUSE")
    /\ ~HasDirective(PathUdfDeploy, "WAREHOUSE")
    /\ Cardinality(MissingContext(PathUdf, "WAREHOUSE")) = 1
    /\ MissingContext(PathUdfDeploy, "WAREHOUSE") = {}

\* A statement that creates a warehouse: CREATE [OR REPLACE] WAREHOUSE.
CreatesWarehouse(content) ==
    \E i \in DOMAIN content :
        LET p1 == Spaces1(content, Lit(content, i, "CREATE"))
            p2 == Spaces1(content, Lit(content, Spaces1(content, Lit(content, p1, "OR")),
                                       "REPLACE"))
        IN  Lit(content, IF p2 # 0 THEN p2 ELSE p1, "WAREHOUSE") # 0

\* C9: after _validate_warehouse_usage there is one WAREHOUSE_DEPENDENCY
\* WARNING, without a file path, when a file's recorded context holds
\* WAREHOUSE and no file creates a warehouse, and there is none otherwise.
C9_WarningIffUsedNotCreated ==
    Past("warehouse") =>
        LET used == \E k \in DOMAIN context_settings :
                        "WAREHOUSE" \in DOMAIN context_settings[k].context
            created == \E p \in DOMAIN files : CreatesWarehouse(files[p].content)
        IN  /\ Cardinality(WithCategory("WAREHOUSE_DEPENDENCY"))
                   = IF used /\ ~created THEN 1 ELSE 0
            /\ \A i \in WithCategory("WAREHOUSE_DEPENDENCY") :
                   issues[i].severity = "WARNING" /\ issues[i].file_path = <<>>

\* C9's failing case: the only script is USE  WAREHOUSE RDF_DEMO_WH; with two
\* spaces: the context holds WAREHOUSE, no warehouse is created, no warning.
C9_Witness ==
    /\ pc = "exited"
    /\ DOMAIN files = {PathA}
    /\ files[PathA].content = UseStmt(<<" ", " ">>, "WAREHOUSE", "RDF_DEMO_WH")
    /\ context_settings[1].context["WAREHOUSE"] = "RDF_DEMO_WH"
    /\ WithCategory("WAREHOUSE_DEPENDENCY") = {}

\* C3's failing case: 256 ERROR issues, and the status 0.
C3_Witness ==
    /\ pc = "exited"
    /\ ErrorCount(issues) = 256
    /\ exit_status = 0

\* C11: whatever the run collected, the report holds the summary line, the
\* summary of the definitions found (name and parameter count) and the
\* summary of the calls found (name and number of calls).
C11_FullReportAlways ==
    Past("report") =>
        /\ {"summary", "definitions", "calls"} \subseteq report.printed
        /\ DOMAIN report.definitions = DOMAIN function_definitions
        /\ DOMAIN report.call_counts = {function_calls[k].name : k \in DOMAIN function_calls}

\* C11's failing case: a.sql declares a function and nothing else; the run
\* has a definition and a recorded call, no issue, and the report is the
\* header and the line that all passed.
C11_Witness ==
    /\ pc = "exited"
    /\ issues = <<>>
    /\ function_definitions # <<>>
    /\ function_calls # <<>>
    /\ report.printed = {"header", "all passed"}

Inconsistent(p, t) ==
    {i \in DOMAIN issues :
        /\ issues[i].category = "CONTEXT_INCONSISTENCY"
        /\ issues[i].file_path = p
        /\ issues[i].description[2] = t}

\* The context recorded for a file: no dimension when the file has no entry.
RecordedContext(p) ==
    IF SettingsOf(p) = {} THEN <<>>
    ELSE context_settings[CHOOSE k \in SettingsOf(p) : TRUE].context

\* C12: once _validate_context_consistency has run, a file whose path does
\* not hold deploy_via_snowsight.sql has one CONTEXT_INCONSISTENCY WARNING
\* for a dimension exactly when its recorded value for the dimension is not
\* the expected one; a file whose path holds deploy_via_snowsight.sql has
\* no CONTEXT_INCONSISTENCY and no MISSING_CONTEXT issue.
C12_InconsistencyIffDiffers ==
    Past("context") =>
        \A p \in DOMAIN files :
            \A t \in Range(context_types) :
                /\ \A i \in Inconsistent(p, t) : issues[i].severity = "WARNING"
                /\ Cardinality(Inconsistent(p, t))
                       = IF /\ ~PathContains(p, "deploy_via_snowsight.sql")
                            /\ t \in DOMAIN RecordedContext(p)
                            /\ RecordedContext(p)[t] # expected_context[t]
                         THEN 1 ELSE 0
                /\ PathContains(p, "deploy_via_snowsight.sql") =>
                       Inconsistent(p, t) \cup MissingContext(p, t) = {}

\* C12's case: python_udfs/udf.sql and python_udfs/deploy_via_snowsight.sql
\* both set SCHEMA to X; the first has its warning, the second no issue.
C12_Witness ==
    /\ pc = "exited"
    /\ DOMAIN files = {PathUdf, PathUdfDeploy}
    /\ "SCHEMA" \in DOMAIN RecordedContext(PathUdf)
    /\ RecordedContext(PathUdf)["SCHEMA"] = "X"
    /\ "SCHEMA" \in DOMAIN RecordedContext(PathUdfDeploy)
    /\ RecordedContext(PathUdfDeploy)["SCHEMA"] = "X"
    /\ Cardinality(Inconsistent(PathUdf, "SCHEMA")) = 1
    /\ IssuesOf(PathUdfDeploy) = {}

DependencyOrder(p) ==
    {i \in DOMAIN issues :
        issues[i].category = "DEPENDENCY_ORDER" /\ issues[i].file_path = p}

TestIssues(severity) ==
    {k \in DOMAIN tester.issues : tester.issues[k].severity = severity}

\* The tester's process has ended, by sys.exit or by an exception.
TestEnded == tester.pc \in {"exited", "crashed"}

\* C14: in the integration runner success is true exactly when its issues
\* hold no ERROR; an ERROR once added stays, so the flag stays false; and
\* the process that ends after an ERROR ends with a status that is not 0.
C14_SuccessIffNoError ==
    /\ [](tester.success <=> TestIssues("ERROR") = {})
    /\ [][TestIssues("ERROR") # {} => (TestIssues("ERROR") # {})' /\ ~tester'.success]_vars
    /\ []((TestEnded /\ TestIssues("ERROR") # {}) => tester.exit_status # 0)
    /\ []((tester.pc = "exited" /\ TestIssues("ERROR") = {}) => tester.exit_status = 0)

\* C14's case: a run that added an ERROR, went on through its steps with
\* the flag false, and ended with status 1.
C14_Witness ==
    /\ tester.pc = "exited"
    /\ TestIssues("ERROR") # {}
    /\ TestIssues("WARNING") # {}
    /\ ~tester.success
    /\ tester.exit_status = 1

\* The ERROR issues of the tester for the k-th expected script missing.
MissingScript(k) ==
    {i \in DOMAIN tester.issues :
        tester.issues[i]
            = TestIssue("ERROR", <<"Missing required script:">> \o script_order[k])}

\* C15: once _test_execution_order is over, each expected script has one
\* ERROR when its file does not exist and none when it exists, whatever
\* holds for the scripts before it; and the run with a missing script
\* does not end with status 0.
C15_OneErrorPerMissingScript ==
    tester.pc \notin {"syntax", "order"} =>
        \A k \in DOMAIN script_order :
            /\ Cardinality(MissingScript(k))
                   = IF script_order[k] \in DOMAIN files THEN 0 ELSE 1
            /\ (TestEnded /\ script_order[k] \notin DOMAIN files) =>
                   tester.exit_status # 0

\* C15's failing case: the second expected script exists and cannot be
\* read, the fifth does not exist; the process has died in
\* _validate_script_dependencies and the fifth has no ERROR.
C15_Witness ==
    /\ tester.pc = "crashed"
    /\ script_order[2] \in DOMAIN files
    /\ ~files[script_order[2]].readable
    /\ script_order[1] \in DOMAIN files
    /\ script_order[5] \notin DOMAIN files
    /\ MissingScript(5) = {}
    /\ \A k \in DOMAIN tester.issues :
           tester.issues[k] = TestIssue("ERROR", <<"Failed to read">> \o script_order[2])

\* The WARNING issues of the tester for an expected object not found.
MissingObject(object_type, name) ==
    {i \in DOMAIN tester.issues :
        tester.issues[i]
            = TestIssue("WARNING", <<"Required", object_type, name, "not found in scripts">>)}

\* Some file holds a statement that creates the object: CREATE [OR REPLACE]
\* <object_type> [IF NOT EXISTS] <name>.
IsCreated(object_type, name) ==
    \E p \in DOMAIN files :
    \E replace, guarded \in BOOLEAN :
        LET c == files[p].content
            stmt == CreateObjectStmt(replace, object_type, guarded, name)
            head == SubSeq(stmt, 1, Len(stmt) - 2)
        IN  \E i \in DOMAIN c :
                i + Len(head) - 1 <= Len(c) /\ SubSeq(c, i, i + Len(head) - 1) = head

\* C16: once _test_data_flow has run, every expected table and view has one
\* WARNING when no file holds a statement creating it and none when one does.
C16_OneWarningPerAbsentObject ==
    tester.pc \in {"workflow", "report", "exit", "exited"} =>
        /\ \A k \in DOMAIN required_tables :
               Cardinality(MissingObject("TABLE", required_tables[k]))
                   = IF IsCreated("TABLE", required_tables[k]) THEN 0 ELSE 1
        /\ \A k \in DOMAIN required_views :
               Cardinality(MissingObject("VIEW", required_views[k]))
                   = IF IsCreated("VIEW", required_views[k]) THEN 0 ELSE 1

\* C16's failing case: the one script is CREATE TABLE IF NOT EXISTS CATEGORY;
\* and the run has the WARNING that the table CATEGORY is not found.
C16_Witness ==
    /\ tester.pc = "exited"
    /\ DOMAIN files = {PathA}
    /\ files[PathA].content = CreateObjectStmt(FALSE, "TABLE", TRUE, "CATEGORY")
    /\ Cardinality(MissingObject("TABLE", "CATEGORY")) = 1

\* C17: with no *.sql file under the root the run goes through all its
\* steps without parsing a file, collects no issue and ends with status 0.
C17_EmptyRootIsClean ==
    DOMAIN files = {} =>
        /\ sql_files = <<>>
        /\ pc # "parse"
        /\ issues = <<>>
        /\ function_definitions = <<>>
        /\ function_calls = <<>>
        /\ context_settings = <<>>
        /\ exit_status \in {-1, 0}
        /\ pc = "exited" <=> exit_status = 0

\* C17's case: the run over the empty root has ended.
C17_Witness ==
    /\ DOMAIN files = {}
    /\ pc = "exited"
    /\ run = 1
    /\ issues = <<>>
    /\ exit_status = 0

\* The name is called in the text: it stands before "(" and not after
\* FUNCTION, where it is declared.
CalledIn(content, name) ==
    \E i \in DOMAIN content :
        /\ Upper(content[i]) = name
        /\ Chr(content, Spaces0(content, i + 1), "(") # 0
        /\ ~(i >= 3 /\ IsSpace(content[i - 1]) /\ Upper(content[i - 2]) = "FUNCTION")

\* The parameter counts of the declarations of name in a file that is read.
DeclaredCounts(p, name) ==
    IF ~files[p].readable THEN {}
    ELSE {Len(ParseParameters(d.group)) : d \in Range(Declarations(files[p].content, name))}

SignatureIssuesFor(name) ==
    {i \in DOMAIN issues :
        /\ issues[i].category \in {"UNDEFINED_FUNCTION", "PARAMETER_MISMATCH"}
        /\ issues[i].description[2] = name}

\* C18: once _validate_function_signatures has run, an allowlisted function
\* that two files declare with different parameter counts and that no file
\* calls has no UNDEFINED_FUNCTION and no PARAMETER_MISMATCH issue.
C18_OverrideRaisesNothing ==
    Past("signatures") =>
        \A name \in Range(udf_functions) :
            (/\ \E p, q \in DOMAIN files :
                    /\ p # q
                    /\ \E m \in DeclaredCounts(p, name) :
                       \E n \in DeclaredCounts(q, name) : m # n
             /\ \A p \in DOMAIN files : ~CalledIn(files[p].content, name))
                => SignatureIssuesFor(name) = {}

\* C18's failing case: a.sql declares GENERATE_ID(x INT), b.sql declares
\* GENERATE_ID(x INT, y INT), nothing calls it, and the declaration of a.sql
\* has a PARAMETER_MISMATCH.
C18_Witness ==
    /\ pc = "exited"
    /\ DOMAIN files = {PathA, PathB}
    /\ files[PathA].content = CreateFunctionStmt("GENERATE_ID", <<"x", " ", "INT">>)
    /\ files[PathB].readable
    /\ files[PathB].content
           = CreateFunctionStmt("GENERATE_ID", <<"x", " ", "INT", ",", " ", "y", " ", "INT">>)
    /\ \E i \in SignatureIssuesFor("GENERATE_ID") :
           /\ issues[i].category = "PARAMETER_MISMATCH"
           /\ issues[i].file_path = PathA
           /\ issues[i].line_number = 1

C20_EveryTopLevelArgument ==
    Past("parse") =>
        \A args \in ArgLists :
            files[PathA].content = CallStmt("GENERATE_ID", args) =>
                /\ Len(function_calls) = 1
                /\ Len(function_calls[1].parameters) = Len(args)

\* C20's failing cases: F(H(1,2), 1) and F('a)', 1) are each recorded with
\* one argument.
C20_Witness ==
    /\ pc = "exited"
    /\ \/ files[PathA].content
              = CallStmt("GENERATE_ID", <<<<"H", "(", "1", ",", "2", ")">>, <<"1">>>>)
       \/ files[PathA].content
              = CallStmt("GENERATE_ID", <<<<"'", "a", ")", "'">>, <<"1">>>>)
    /\ Len(function_calls) = 1
    /\ Len(function_calls[1].parameters) = 1

\* The step of validate_all that appends the issues of a category.
ProducedAt(category) ==
    CASE category = "FILE_PARSING" -> 1
      [] category \in {"UNDEFINED_FUNCTION", "PARAMETER_MISMATCH"} -> 2
      [] category \in {"CONTEXT_INCONSISTENCY", "MISSING_CONTEXT"} -> 3
      [] category = "DEPENDENCY_ORDER" -> 4
      [] category = "SYNTAX_ERROR" -> 5
      [] category = "WAREHOUSE_DEPENDENCY" -> 6

\* The collection is the one before the step, with issues put at its end.
Appended == Len(issues') >= Len(issues) /\ SubSeq(issues', 1, Len(issues)) = issues

\* C21: the issue list is in the order the issues were produced, not by
\* severity: the FILE_PARSING issues, then the signature issues, then the
\* context issues, then the DEPENDENCY_ORDER issues, then the SYNTAX_ERROR
\* issues, then the one WAREHOUSE_DEPENDENCY issue; and within one process
\* every step leaves the issues it finds as they are and where they are.
C21_OrderedByProduction ==
    /\ [](/\ \A i, j \in DOMAIN issues :
                i < j => ProducedAt(issues[i].category) <= ProducedAt(issues[j].category)
          /\ Cardinality(WithCategory("WAREHOUSE_DEPENDENCY")) <= 1)
    /\ [][pc # "exited" => Appended]_vars

\* C21's case: a finished run whose list holds a WARNING before an ERROR,
\* with issues of four steps.
C21_Witness ==
    /\ pc = "exited"
    /\ \E i, j \in DOMAIN issues :
           i < j /\ issues[i].severity = "WARNING" /\ issues[j].severity = "ERROR"
    /\ Cardinality({ProducedAt(issues[i].category) : i \in DOMAIN issues}) >= 4

\* The two lists hold the same issues, each as many times.
SameIssues(a, b) ==
    \A x \in Range(a) \cup Range(b) :
        Cardinality({i \in DOMAIN a : a[i] = x}) = Cardinality({i \in DOMAIN b : b[i] = x})

\* What the parse loop and the five checks in the written order collect from
\* the files and the finished tables.
InWrittenOrder ==
    SelectSeq(issues, LAMBDA i : i.category = "FILE_PARSING")
        \o SignatureIssues(function_calls, function_definitions)
        \o ContextIssues(context_settings)
        \o DependencyIssues(context_settings)
        \o SyntaxIssues(FindSqlFiles(sql_files), files)
        \o WarehouseIssues(context_settings, files)

\* The step leaves the symbol tables as they are.
TablesKept ==
    /\ function_definitions' = function_definitions
    /\ function_calls' = function_calls
    /\ context_settings' = context_settings

AllParsed ==
    /\ Range(sql_files) = DOMAIN files
    /\ \A k \in DOMAIN sql_files :
           \/ \E j \in DOMAIN context_settings :
                  context_settings[j].file_path = sql_files[k]
           \/ \E i \in DOMAIN issues :
                  /\ issues[i].category = "FILE_PARSING"
                  /\ issues[i].file_path = sql_files[k]

\* How far a process is: the steps in their order, and the end by an
\* exception after them.
Position(step) == IF step = "crashed" THEN Len(Steps) + 1 ELSE StepIndex(step)

\* The step is a turn of the parse loop or leads on to a later step: no
\* step is taken a second time.
Forward ==
    \/ pc = "parse" /\ pc' = "parse" /\ next_file' = next_file + 1
    \/ Position(pc') > Position(pc)

\* C23: in one run every discovered file is parsed (or has failed with
\* FILE_PARSING) before a check starts, each of the five checks and the
\* report are run once, in their order and never again, and every run
\* gets to the report.
C23_SinglePassReachesReport ==
    /\ []((pc \in Range(validation_checks) \cup {"report", "exit", "exited"}) => AllParsed)
    /\ [][pc # "exited" => Forward]_vars
    /\ [](pc = "find" => <>(pc = "report"))

\* C23's case: a process that ended in _validate_warehouse_usage, its
\* script parsed and nothing reported.
C23_Witness ==
    /\ pc = "crashed"
    /\ encoding = "cp1252"
    /\ AllParsed
    /\ context_settings # <<>>
    /\ report = <<>>

\* The readable files that declare name.
DeclaringFiles(name) ==
    {p \in DOMAIN files :
        files[p].readable /\ Declarations(files[p].content, name) # <<>>}

\* The second process ended with the table, the issues (each as many
\* times) and the status of the first.
SameOutcome ==
    /\ function_definitions = first_run.function_definitions
    /\ SameIssues(issues, first_run.issues)
    /\ exit_status = first_run.exit_status

\* C24: when no function name is declared in more than one file, parsing
\* the files in any order gives the definition table, the issues (each as
\* many times) and the exit code of parsing them in sorted order.
C24_FileOrderOnlyThroughOverrides ==
    (/\ run = 2
     /\ pc = "exited"
     /\ \A name \in Range(udf_functions) \cup DOMAIN first_run.function_definitions :
            Cardinality(DeclaringFiles(name)) <= 1)
        => SameOutcome

\* C24's case: b.sql was parsed before a.sql, one of them declares the
\* function and the other calls it, and the call is reported.
C24_Witness ==
    /\ run = 2
    /\ pc = "exited"
    /\ sql_files = <<PathB, PathA>>
    /\ Cardinality(DeclaringFiles("GENERATE_ID")) = 1
    /\ \E k \in DOMAIN function_calls :
           function_calls[k].file_path \notin DeclaringFiles("GENERATE_ID")
    /\ WithCategory("PARAMETER_MISMATCH") # {}
    /\ SameOutcome

\* The UDF-consistency step is over.
UdfTested == tester.pc \in {"data_flow", "workflow", "report", "exit", "exited"}

\* The ERROR issues that the UDF-consistency step added.
UdfErrors ==
    {k \in TestIssues("ERROR") :
        tester.issues[k].description = <<"UDF consistency validation failed">>}

\* C25: the UDF-consistency step adds its ERROR, and with it makes the
\* integration run fail, exactly when the validator it ran as a child
\* process collected at least one ERROR issue.
C25_UdfErrorIffChildErrors ==
    UdfTested =>
        /\ UdfErrors # {} <=> ErrorCount(issues) >= 1
        /\ UdfErrors # {} => ~tester.success

\* C25's failing case: the child collected 256 ERROR issues and the step
\* added no ERROR.
C25_Witness ==
    /\ UdfTested
    /\ pc = "exited"
    /\ ErrorCount(issues) = 256
    /\ UdfErrors = {}

=============================================================================
